---- MODULE Spec2Model ----
(***************************************************************************)
(* Secure Votes backend: the Paillier cryptosystem (app/crypto/paillier.py),*)
(* the vote / photo / audit tables and their transactions (app/db.py) and   *)
(* the request handlers that use them (app/main.py).                        *)
(*                                                                          *)
(* The database is PostgreSQL at its default isolation level (READ          *)
(* COMMITTED): every statement of a transaction sees the rows committed     *)
(* before the statement started plus the transaction's own writes, and the  *)
(* identity sequences are allocated at INSERT time and never rolled back.   *)
(***************************************************************************)
EXTENDS Integers, Sequences, FiniteSets, TLC

(***************************************************************************)
(* Bounds of the model.                                                     *)
(***************************************************************************)
\* generate_keypair(bits=256) scaled down: primes of KeyBits \div 2 bits.
KeyBits == 6
\* Miller-Rabin rounds explored (rounds=16 in the source).
MRRounds == 2
\* Number of write calls (send_vote, upload_photo) a run makes.
MaxCalls == 3

\* Request-handling tasks that may run concurrently.
Procs == {"w1", "w2"}

\* SQL NULL / Python None for a hash column.
None == <<>>

(***************************************************************************)
(* Decimal strings: str(int) and int(str).  A string is a sequence of      *)
(* one-character strings.                                                   *)
(***************************************************************************)
Digits == <<"0", "1", "2", "3", "4", "5", "6", "7", "8", "9">>

DigitChars == {Digits[i] : i \in 1..10}

DigitVal(ch) == (CHOOSE i \in 1..10 : Digits[i] = ch) - 1

RECURSIVE StrNat(_)
StrNat(k) == IF k < 10 THEN <<Digits[k + 1]>>
             ELSE StrNat(k \div 10) \o <<Digits[(k % 10) + 1]>>

\* str(k) of a Python int.
Str(k) == IF k < 0 THEN <<"-">> \o StrNat(-k) ELSE StrNat(k)

RECURSIVE DigitsValue(_)
DigitsValue(s) == IF Len(s) = 0 THEN 0
                  ELSE 10 * DigitsValue(SubSeq(s, 1, Len(s) - 1)) + DigitVal(s[Len(s)])

AllDigits(s) == Len(s) > 0 /\ \A i \in 1..Len(s) : s[i] \in DigitChars

\* int(s) of a Python str over the alphabet digits, "-" and letters: an
\* optional sign followed by at least one digit (leading zeros allowed);
\* anything else raises ValueError.
ValueError == "ValueError"

ParsesAsInt(s) == \/ AllDigits(s)
                  \/ (Len(s) > 1 /\ s[1] = "-" /\ AllDigits(Tail(s)))

ParseInt(s) == IF AllDigits(s) THEN DigitsValue(s) ELSE 0 - DigitsValue(Tail(s))

(***************************************************************************)
(* app/crypto/paillier.py                                                   *)
(***************************************************************************)
RECURSIVE gcd(_, _)
gcd(a, b) == IF b = 0 THEN a ELSE gcd(b, a % b)

\* pow(base, e, m) for e >= 0.
RECURSIVE ModExp(_, _, _)
ModExp(base, e, m) ==
    IF e = 0 THEN 1 % m
    ELSE LET h == ModExp(base, e \div 2, m)
             sq == (h * h) % m
         IN IF e % 2 = 0 THEN sq ELSE (sq * (base % m)) % m

RECURSIVE Pow2(_)
Pow2(k) == IF k = 0 THEN 1 ELSE 2 * Pow2(k - 1)

\* pow(a, -1, m): defined only when gcd(a, m) = 1 (ValueError otherwise).
HasInverse(a, m) == \E x \in 0..(m - 1) : (a * x) % m = 1 % m

ModInverse(a, m) == CHOOSE x \in 0..(m - 1) : (a * x) % m = 1 % m

lcm(a, b) == (a * b) \div gcd(a, b)

small_primes == {2, 3, 5, 7, 11, 13, 17, 19, 23, 29}

\* n - 1 = d * 2^s with d odd.
RECURSIVE OddPart(_)
OddPart(d) == IF d % 2 = 0 THEN OddPart(d \div 2) ELSE d

RECURSIVE TwoExponent(_)
TwoExponent(d) == IF d % 2 = 0 THEN 1 + TwoExponent(d \div 2) ELSE 0

\* The inner loop of one round: squares x up to k more times; TRUE when some
\* square equals n - 1 (the round is inconclusive).
RECURSIVE SquareReaches(_, _, _)
SquareReaches(x, k, n) ==
    IF k <= 0 THEN FALSE
    ELSE LET y == (x * x) % n
         IN IF y = n - 1 THEN TRUE ELSE SquareReaches(y, k - 1, n)

\* (mutant) a round whose first power is n - 1 is not taken as inconclusive.
RoundPasses_strict(n, a) ==
    LET d == OddPart(n - 1)
        s == TwoExponent(n - 1)
        x == ModExp(a, d, n)
    IN  x = 1 \/ SquareReaches(x, s - 1, n)

\* One Miller-Rabin round with base a: TRUE when a does not prove n composite.
RoundPasses(n, a) ==
    LET d == OddPart(n - 1)
        s == TwoExponent(n - 1)
        x == ModExp(a, d, n)
    IN  x = 1 \/ x = n - 1 \/ SquareReaches(x, s - 1, n)

\* _is_probable_prime(n, rounds) with the drawn bases made explicit:
\* rounds = Len(bases).
is_probable_prime(n, bases) ==
    IF n < 2 THEN FALSE
    ELSE IF n \in small_primes THEN TRUE
    ELSE IF \E p \in small_primes : n % p = 0 THEN FALSE
    ELSE \A i \in 1..Len(bases) : RoundPasses(n, bases[i])

\* secrets.randbits(bits) | 1 | (1 << (bits - 1))
Candidates(bits) == {c \in Pow2(bits - 1)..(Pow2(bits) - 1) : c % 2 = 1}

\* The bases secrets.randbelow(n - 3) + 2 can give over the rounds.
BaseDraws(n) == IF n > 4 THEN [1..MRRounds -> 2..(n - 2)] ELSE {<<>>}

\* The values _generate_prime(bits) can return.
generate_prime(bits) ==
    {c \in Candidates(bits) : \E bases \in BaseDraws(c) : is_probable_prime(c, bases)}

\* The keypair generate_keypair builds from the primes p and q; pow(l_val, -1, n)
\* raises when l_val has no inverse.
KeypairOf(p, q) ==
    LET n == p * q
        lam == lcm(p - 1, q - 1)
        g == n + 1
        n_sq == n * n
        x == ModExp(g, lam, n_sq)
        l_val == (x - 1) \div n
    IN  [n |-> n, g |-> g, lam |-> lam, mu |-> ModInverse(l_val, n)]

KeypairDefined(p, q) ==
    LET n == p * q
    IN  HasInverse((ModExp(n + 1, lcm(p - 1, q - 1), n * n) - 1) \div n, n)

\* The keypairs generate_keypair(bits) can return: p and q are two
\* independent draws and are not compared.
generate_keypair(bits) ==
    {KeypairOf(p, q) : <<p, q>> \in
        {pq \in generate_prime(bits \div 2) \X generate_prime(bits \div 2) :
            KeypairDefined(pq[1], pq[2])}}

\* The test encrypt makes on a drawn r_candidate.
IsAdmissibleR(key, r) == 1 <= r /\ r < key.n /\ gcd(r, key.n) = 1

\* The randomness encrypt may draw: 1 <= r < n with gcd(r, n) = 1.
AdmissibleR(key) == {r \in 1..(key.n - 1) : IsAdmissibleR(key, r)}

\* encrypt(pub, m, r) for 0 <= m < n.
encrypt(key, m, r) ==
    LET n_sq == key.n * key.n
        c1 == ModExp(key.g, m, n_sq)
        c2 == ModExp(r, key.n, n_sq)
    IN  (c1 * c2) % n_sq

\* (mutant) the product is returned without the final reduction modulo n.
decrypt_unreduced(key, c) ==
    LET n_sq == key.n * key.n
        x == ModExp(c, key.lam, n_sq)
        l_val == (x - 1) \div key.n
    IN  l_val * key.mu

decrypt(key, c) ==
    LET n_sq == key.n * key.n
        x == ModExp(c, key.lam, n_sq)
        l_val == (x - 1) \div key.n
    IN  (l_val * key.mu) % key.n

\* (mutant) the accumulator is squared on its way into the product.
add_skewed(key, c1, c2) == (((c1 * c1) % (key.n * key.n)) * c2) % (key.n * key.n)

add(key, c1, c2) == (c1 * c2) % (key.n * key.n)

\* (mutant) the plaintext is added to the ciphertext instead of multiplied in.
add_plain_sum(key, c, m) == (c + ModExp(key.g, m, key.n * key.n)) % (key.n * key.n)

add_plain(key, c, m) == (c * ModExp(key.g, m, key.n * key.n)) % (key.n * key.n)

\* One call into app.crypto.paillier: the function, the integers it worked on
\* (its arguments, the key aside, then the randomness it drew) and the value
\* returned (<<>> when the call raised).
LibCall(fn, args, out) == [fn |-> fn, args |-> args, out |-> out]

\* (mutant) the range check lets m = n through.
encrypt_call_inclusive(key, m, r) ==
    IF ~(0 <= m /\ m <= key.n) THEN LibCall("encrypt", <<m>>, <<>>)
    ELSE LibCall("encrypt", <<m, r>>, <<encrypt(key, m, r)>>)

\* encrypt(pub, m) when its draw gives r: out of range, ValueError is raised
\* before anything is drawn.
encrypt_call(key, m, r) ==
    IF ~(0 <= m /\ m < key.n) THEN LibCall("encrypt", <<m>>, <<>>)
    ELSE LibCall("encrypt", <<m, r>>, <<encrypt(key, m, r)>>)

\* decrypt(priv, c): no check of c, no statement that can raise.
decrypt_call(key, c) == LibCall("decrypt", <<c>>, <<decrypt(key, c)>>)

(***************************************************************************)
(* app/db.py: tables, identity sequences and transactions                   *)
(***************************************************************************)
VARIABLES
    demo_key,      \* _DEMO_PUB, _DEMO_PRIV: generated once at import
    questions,     \* votes.questions    (committed rows)
    participants,  \* identity.participants
    votes,         \* votes.votes
    logs,          \* audit.logs
    photos,        \* photos.photos
    bucket,        \* the object store: object_name -> length of the stored body
    seq,           \* last value of the identity sequence of each table
    tx,            \* per task: the running call (its position, its uncommitted
                   \* writes) or the response of its last call
    calls,         \* write calls begun so far
    tamper,        \* the out-of-band modification made to the database, if any
    lib,           \* the calls made directly into app.crypto.paillier with the
                   \* keypair, in order (as tests/test_paillier.py makes them)
    users,         \* identity.users
    tokens,        \* the payloads of the tokens create_token has signed
    now            \* the clock, in units of which a token lives TokenLifetime

iam == <<users, tokens, now>>

vars == <<demo_key, questions, participants, votes, logs, photos, bucket, seq, tx,
          calls, tamper, lib, users, tokens, now>>

DEMO_KEY_ID == "key-v1"

\* hash_identifier: SHA-256 of the text, taken as collision free; the text is
\* kept as the sequence of its formatted parts.
hash_identifier(text) == <<"sha256", text>>

\* f"{question_id}:{ciphertext}:{key_id}"
VotePayload(question_id, ciphertext, key_id) ==
    <<question_id, ":", ciphertext, ":", key_id>>

\* f"photo:{object_name}:{size_bytes}:{key_id}"
PhotoPayload(object_name, size_bytes, key_id) ==
    <<"photo", ":", object_name, ":", Str(size_bytes), ":", key_id>>

\* A request with the fields of VoteRequest / PhotoUploadRequest (fields a call
\* does not carry are left empty).
NoReq == [question_id |-> "", participant_id |-> "", agent_id |-> "",
          ciphertext |-> <<>>, key_id |-> "", object_name |-> "", size_bytes |-> 0,
          authorization |-> {}]

VoteReq(q, part, agent, ct, key) ==
    [NoReq EXCEPT !.question_id = q, !.participant_id = part, !.agent_id = agent,
                  !.ciphertext = ct, !.key_id = key]

PhotoReq(obj, size, key) ==
    [NoReq EXCEPT !.object_name = obj, !.size_bytes = size, !.key_id = key]

\* A task with no call in progress and no response yet.  crypto lists the
\* calls into app.crypto.paillier the task's last call made.
Fresh == [pc |-> "done", op |-> "none", req |-> NoReq, part |-> {}, vote |-> {},
          photo |-> {}, prev |-> None, log |-> {}, status |-> 0, body |-> <<>>,
          crypto |-> <<>>]

InProgress(p) == tx[p].pc # "done"

\* Rows in ascending id order (ORDER BY id ASC).
RECURSIVE OrderById(_)
OrderById(rows) ==
    IF rows = {} THEN <<>>
    ELSE LET first == CHOOSE r \in rows : \A o \in rows : r.id <= o.id
         IN  <<first>> \o OrderById(rows \ {first})

\* (mutant) the SELECT ordered by id ascending: the oldest entry is read.
LatestPayloadHash_oldest(rows) ==
    IF rows = {} THEN None
    ELSE (CHOOSE r \in rows : \A o \in rows : r.id <= o.id).payload_hash

\* select(payload_hash).order_by(id.desc()).limit(1) on the committed rows and
\* the transaction's own (the transaction has inserted no log row yet).
LatestPayloadHash(rows) ==
    IF rows = {} THEN None
    ELSE (CHOOSE r \in rows : \A o \in rows : o.id <= r.id).payload_hash

\* (mutant) the running payload hash is never advanced past the first row.
RECURSIVE VerifyWalk_stale(_, _, _)
VerifyWalk_stale(rows, i, prev_payload) ==
    IF i > Len(rows) THEN [ok |-> TRUE, length |-> Len(rows), broken_id |-> {}]
    ELSE IF prev_payload = None
         THEN VerifyWalk_stale(rows, i + 1, rows[i].payload_hash)
    ELSE IF rows[i].prev_hash # prev_payload
         THEN [ok |-> FALSE, length |-> Len(rows), broken_id |-> {rows[i].id}]
    ELSE VerifyWalk_stale(rows, i + 1, prev_payload)

\* (mutant) a broken link is reported under the id of the row before it.
RECURSIVE VerifyWalk_previd(_, _, _)
VerifyWalk_previd(rows, i, prev_payload) ==
    IF i > Len(rows) THEN [ok |-> TRUE, length |-> Len(rows), broken_id |-> {}]
    ELSE IF prev_payload = None
         THEN VerifyWalk_previd(rows, i + 1, rows[i].payload_hash)
    ELSE IF rows[i].prev_hash # prev_payload
         THEN [ok |-> FALSE, length |-> Len(rows), broken_id |-> {rows[i - 1].id}]
    ELSE VerifyWalk_previd(rows, i + 1, rows[i].payload_hash)

\* (mutant) the first row is checked like the others: its prev_hash has to be
\* the initial running value, None.
RECURSIVE VerifyWalk_first(_, _, _)
VerifyWalk_first(rows, i, prev_payload) ==
    IF i > Len(rows) THEN [ok |-> TRUE, length |-> Len(rows), broken_id |-> {}]
    ELSE IF rows[i].prev_hash # prev_payload
         THEN [ok |-> FALSE, length |-> Len(rows), broken_id |-> {rows[i].id}]
    ELSE VerifyWalk_first(rows, i + 1, rows[i].payload_hash)

\* verify_hash_chain's walk over the rows in id order.
RECURSIVE VerifyWalk(_, _, _)
VerifyWalk(rows, i, prev_payload) ==
    IF i > Len(rows) THEN [ok |-> TRUE, length |-> Len(rows), broken_id |-> {}]
    ELSE IF prev_payload = None THEN VerifyWalk(rows, i + 1, rows[i].payload_hash)
    ELSE IF rows[i].prev_hash # prev_payload
         THEN [ok |-> FALSE, length |-> Len(rows), broken_id |-> {rows[i].id}]
    ELSE VerifyWalk(rows, i + 1, rows[i].payload_hash)

\* verify_hash_chain on the committed audit rows; broken_id is {} for None.
verify_hash_chain == VerifyWalk(OrderById(logs), 1, None)

(***************************************************************************)
(* app/auth.py: passwords and tokens                                        *)
(***************************************************************************)
ROLES == {"agent", "admin", "auditor"}

\* hashlib.sha256(f"{salt}:{password}"), with sha256 taken as injective.
hash_password(password, salt) == <<"sha256", salt, password>>

verify_password(password, pw_hash, salt) == hash_password(password, salt) = pw_hash

\* JWT_EXPIRE_MINUTES, in units of the clock.
TokenLifetime == 1

\* The payload create_token signs; the token is taken as its payload, and a
\* signature verifies exactly for the payloads in tokens.
create_token(user_id, username, role) ==
    [sub |-> Str(user_id), username |-> username, role |-> role,
     iat |-> now, exp |-> now + TokenLifetime]

\* decode_token: the payload, or nothing ({}) for a signature that does not
\* verify and for a token past its exp.
decode_token(token) ==
    IF token \notin tokens THEN {}
    ELSE IF now > token.exp THEN {}
    ELSE {token}

\* The two accounts init_db inserts into an empty users table.
SeededUsers ==
    {[id |-> 1, username |-> "admin", password_hash |-> hash_password("admin", "s1"),
      password_salt |-> "s1", role |-> "admin", is_active |-> TRUE],
     [id |-> 2, username |-> "agent", password_hash |-> hash_password("agent", "s2"),
      password_salt |-> "s2", role |-> "agent", is_active |-> TRUE]}

Init ==
    /\ demo_key \in generate_keypair(KeyBits)
    \* The questions table as found at startup: empty, or holding a question
    \* that was deactivated directly in the database (no handler sets is_active).
    /\ questions \in {{}, {[question_id |-> "Q2", is_active |-> FALSE]}}
    /\ participants = {}
    /\ votes = {}
    /\ logs = {}
    /\ photos = {}
    /\ bucket = {}
    /\ seq = [votes |-> 0, logs |-> 0, photos |-> 0]
    /\ tx = [p \in Procs |-> Fresh]
    /\ calls = 0
    /\ tamper = None
    /\ lib = <<>>
    /\ users = SeededUsers
    /\ tokens = {}
    /\ now = 0

\* reset_db: TRUNCATE ... RESTART IDENTITY CASCADE of the five domain tables.
\* TRUNCATE needs an exclusive lock on each table, so it waits for every
\* transaction that has touched one of them.
reset_db ==
    /\ \A p \in Procs : ~InProgress(p) \/ tx[p].pc = "photo"
    /\ logs' = {}
    /\ questions' = {}
    /\ votes' = {}
    /\ participants' = {}
    /\ photos' = {}
    /\ seq' = [votes |-> 0, logs |-> 0, photos |-> 0]
    /\ UNCHANGED <<iam, lib, demo_key, bucket, tx, calls, tamper>>

\* create_question: one INSERT, committed at once; question_id is unique.
create_question(q) ==
    /\ \A r \in questions : r.question_id # q
    /\ questions' = questions \cup {[question_id |-> q, is_active |-> TRUE]}
    /\ UNCHANGED <<iam, lib, demo_key, participants, votes, logs, photos, bucket, seq, tx,
                   calls, tamper>>

(***************************************************************************)
(* send_vote / record_vote, one action per statement                        *)
(***************************************************************************)
\* (mutant) q_check without the is_active condition.
send_vote_any_question(p, req) ==
    /\ ~InProgress(p)
    /\ calls < MaxCalls
    /\ calls' = calls + 1
    /\ LET found == {r \in questions : r.question_id = req.question_id}
       IN  tx' = [tx EXCEPT ![p] =
                    IF found = {}
                    THEN [Fresh EXCEPT !.op = "send_vote", !.status = 400]
                    ELSE [Fresh EXCEPT !.op = "send_vote", !.req = req,
                                       !.pc = "identity"]]
    /\ UNCHANGED <<iam, lib, demo_key, questions, participants, votes, logs, photos, bucket,
                   seq, tamper>>

\* send_vote is called; record_vote hashes its arguments, opens the
\* transaction and runs q_check.  No active question: ValueError, turned into
\* a 400 by send_vote.
send_vote(p, req) ==
    /\ ~InProgress(p)
    /\ calls < MaxCalls
    /\ calls' = calls + 1
    /\ LET active == {r \in questions :
                        r.question_id = req.question_id /\ r.is_active}
       IN  tx' = [tx EXCEPT ![p] =
                    IF active = {}
                    THEN [Fresh EXCEPT !.op = "send_vote", !.status = 400]
                    ELSE [Fresh EXCEPT !.op = "send_vote", !.req = req,
                                       !.pc = "identity"]]
    /\ UNCHANGED <<iam, lib, demo_key, questions, participants, votes, logs, photos, bucket,
                   seq, tamper>>

\* (mutant) the agent identifier is stored as given.
vote_identity_raw(p) ==
    /\ tx[p].pc = "identity"
    /\ LET participant_hash == hash_identifier(tx[p].req.participant_id)
       IN  /\ \A o \in Procs \ {p} :
                  \A r \in tx[o].part : r.participant_hash # participant_hash
           /\ tx' = [tx EXCEPT ![p].pc = "vote",
                               ![p].part =
                                  IF \E r \in participants :
                                        r.participant_hash = participant_hash
                                  THEN {}
                                  ELSE {[participant_hash |-> participant_hash,
                                         agent_hash |-> <<tx[p].req.agent_id>>]}]
    /\ UNCHANGED <<iam, lib, demo_key, questions, participants, votes, logs, photos, bucket,
                   seq, calls, tamper>>

\* insert(identities_table) ... on_conflict_do_nothing(participant_hash): waits
\* while another transaction holds an uncommitted row with the same hash.
vote_identity(p) ==
    /\ tx[p].pc = "identity"
    /\ LET participant_hash == hash_identifier(tx[p].req.participant_id)
           agent_hash == hash_identifier(tx[p].req.agent_id)
       IN  /\ \A o \in Procs \ {p} :
                  \A r \in tx[o].part : r.participant_hash # participant_hash
           /\ tx' = [tx EXCEPT ![p].pc = "vote",
                               ![p].part =
                                  IF \E r \in participants :
                                        r.participant_hash = participant_hash
                                  THEN {}
                                  ELSE {[participant_hash |-> participant_hash,
                                         agent_hash |-> agent_hash]}]
    /\ UNCHANGED <<iam, lib, demo_key, questions, participants, votes, logs, photos, bucket,
                   seq, calls, tamper>>

\* votes_table.insert(): the ciphertext is stored as given.
vote_insert(p) ==
    /\ tx[p].pc = "vote"
    /\ seq' = [seq EXCEPT !.votes = @ + 1]
    /\ tx' = [tx EXCEPT ![p].pc = "prev",
                        ![p].vote =
                           {[id |-> seq.votes + 1,
                             question_id |-> tx[p].req.question_id,
                             participant_hash |->
                                 hash_identifier(tx[p].req.participant_id),
                             ciphertext |-> tx[p].req.ciphertext,
                             key_id |-> tx[p].req.key_id]}]
    /\ UNCHANGED <<iam, lib, demo_key, questions, participants, votes, logs, photos, bucket,
                   calls, tamper>>

\* The prev_hash SELECT of record_vote.
vote_read_prev(p) ==
    /\ tx[p].pc = "prev"
    /\ tx[p].op = "send_vote"
    /\ tx' = [tx EXCEPT ![p].pc = "audit", ![p].prev = LatestPayloadHash(logs)]
    /\ UNCHANGED <<iam, lib, demo_key, questions, participants, votes, logs, photos, bucket,
                   seq, calls, tamper>>

\* audit_logs_table.insert() of record_vote.
vote_audit(p) ==
    /\ tx[p].pc = "audit"
    /\ tx[p].op = "send_vote"
    /\ seq' = [seq EXCEPT !.logs = @ + 1]
    /\ tx' = [tx EXCEPT ![p].pc = "commit",
                        ![p].log =
                           {[id |-> seq.logs + 1,
                             event_type |-> "vote_received",
                             payload_hash |->
                                 hash_identifier(VotePayload(tx[p].req.question_id,
                                                             tx[p].req.ciphertext,
                                                             tx[p].req.key_id)),
                             prev_hash |-> tx[p].prev]}]
    /\ UNCHANGED <<iam, lib, demo_key, questions, participants, votes, logs, photos, bucket,
                   calls, tamper>>

\* (mutant) the audit row is written as an upsert keyed on payload_hash: an
\* earlier entry with the same payload is replaced.
Commit_upsert(p, status) ==
    /\ participants' = participants \cup tx[p].part
    /\ votes' = votes \cup tx[p].vote
    /\ photos' = photos \cup tx[p].photo
    /\ logs' = {e \in logs : \A n \in tx[p].log : e.payload_hash # n.payload_hash}
                  \cup tx[p].log
    /\ tx' = [tx EXCEPT ![p] = [Fresh EXCEPT !.op = tx[p].op, !.status = status]]

\* The end of the "async with engine.begin()" block: COMMIT makes the
\* transaction's rows visible together.
Commit(p, status) ==
    /\ participants' = participants \cup tx[p].part
    /\ votes' = votes \cup tx[p].vote
    /\ photos' = photos \cup tx[p].photo
    /\ logs' = logs \cup tx[p].log
    /\ tx' = [tx EXCEPT ![p] = [Fresh EXCEPT !.op = tx[p].op, !.status = status]]

vote_commit(p) ==
    /\ tx[p].pc = "commit"
    /\ tx[p].op = "send_vote"
    /\ Commit(p, 201)
    /\ UNCHANGED <<iam, lib, demo_key, questions, bucket, seq, calls, tamper>>

(***************************************************************************)
(* upload_photo / record_photo_metadata                                     *)
(***************************************************************************)
\* upload_photo up to its first await: the body (ciphertext + tag) is put in
\* the bucket under object_name, replacing any object of that name; then
\* record_photo_metadata is entered (no statement has run yet).
upload_photo(p, req) ==
    /\ ~InProgress(p)
    /\ calls < MaxCalls
    /\ calls' = calls + 1
    /\ bucket' = {o \in bucket : o.object_name # req.object_name}
                    \cup {[object_name |-> req.object_name,
                           length |-> req.size_bytes]}
    /\ tx' = [tx EXCEPT ![p] = [Fresh EXCEPT !.op = "upload_photo", !.req = req,
                                             !.pc = "photo"]]
    /\ UNCHANGED <<iam, lib, demo_key, questions, participants, votes, logs, photos, seq,
                   tamper>>

\* photos_table.insert(): object_name is unique.  The statement waits for a
\* transaction holding an uncommitted row of the same name, and raises
\* IntegrityError (the transaction is rolled back, the handler answers 500)
\* when a committed row has it.
photo_insert(p) ==
    /\ tx[p].pc = "photo"
    /\ \A o \in Procs \ {p} :
          \A r \in tx[o].photo : r.object_name # tx[p].req.object_name
    /\ seq' = [seq EXCEPT !.photos = @ + 1]
    /\ tx' = [tx EXCEPT ![p] =
                IF \E r \in photos : r.object_name = tx[p].req.object_name
                THEN [Fresh EXCEPT !.op = "upload_photo", !.status = 500]
                ELSE [tx[p] EXCEPT !.pc = "prev",
                                   !.photo =
                                      {[id |-> seq.photos + 1,
                                        object_name |-> tx[p].req.object_name,
                                        size_bytes |-> tx[p].req.size_bytes,
                                        key_id |-> tx[p].req.key_id]}]]
    /\ UNCHANGED <<iam, lib, demo_key, questions, participants, votes, logs, photos, bucket,
                   calls, tamper>>

\* The prev_hash SELECT of record_photo_metadata.
photo_read_prev(p) ==
    /\ tx[p].pc = "prev"
    /\ tx[p].op = "upload_photo"
    /\ tx' = [tx EXCEPT ![p].pc = "audit", ![p].prev = LatestPayloadHash(logs)]
    /\ UNCHANGED <<iam, lib, demo_key, questions, participants, votes, logs, photos, bucket,
                   seq, calls, tamper>>

\* audit_logs_table.insert() of record_photo_metadata.
photo_audit(p) ==
    /\ tx[p].pc = "audit"
    /\ tx[p].op = "upload_photo"
    /\ seq' = [seq EXCEPT !.logs = @ + 1]
    /\ tx' = [tx EXCEPT ![p].pc = "commit",
                        ![p].log =
                           {[id |-> seq.logs + 1,
                             event_type |-> "photo_uploaded",
                             payload_hash |->
                                 hash_identifier(PhotoPayload(tx[p].req.object_name,
                                                              tx[p].req.size_bytes,
                                                              tx[p].req.key_id)),
                             prev_hash |-> tx[p].prev]}]
    /\ UNCHANGED <<iam, lib, demo_key, questions, participants, votes, logs, photos, bucket,
                   calls, tamper>>

photo_commit(p) ==
    /\ tx[p].pc = "commit"
    /\ tx[p].op = "upload_photo"
    /\ Commit(p, 201)
    /\ UNCHANGED <<iam, lib, demo_key, questions, bucket, seq, calls, tamper>>

\* The exit of "async with engine.begin()" on an exception: ROLLBACK drops the
\* transaction's rows; the sequence values it drew stay drawn.
Rollback(p) ==
    tx' = [tx EXCEPT ![p] = [Fresh EXCEPT !.op = tx[p].op, !.status = 500]]

\* (mutant) the connection is in autocommit mode: the rows already inserted
\* stay when a later statement raises.
statement_fails_autocommit(p) ==
    /\ InProgress(p)
    /\ participants' = participants \cup tx[p].part
    /\ votes' = votes \cup tx[p].vote
    /\ photos' = photos \cup tx[p].photo
    /\ logs' = logs \cup tx[p].log
    /\ Rollback(p)
    /\ UNCHANGED <<iam, lib, demo_key, questions, bucket, seq, calls, tamper>>

\* The statement a transaction is about to run raises (the connection drops,
\* the server refuses the statement): the block is left by the exception.
statement_fails(p) ==
    /\ InProgress(p)
    /\ Rollback(p)
    /\ UNCHANGED <<iam, lib, demo_key, questions, participants, votes, logs, photos, bucket,
                   seq, calls, tamper>>

(***************************************************************************)
(* Read-only handlers                                                       *)
(***************************************************************************)
\* (mutant) the SELECT runs at READ UNCOMMITTED: rows inserted by transactions
\* still in progress are returned too.
fetch_votes_by_question_dirty(question_id, key_id) ==
    {v \in votes \cup UNION {tx[p].vote : p \in Procs} :
        v.question_id = question_id /\ v.key_id = key_id}

\* fetch_votes_by_question: the committed ciphertexts of (question_id, key_id).
fetch_votes_by_question(question_id, key_id) ==
    {v \in votes : v.question_id = question_id /\ v.key_id = key_id}

\* The orders in which a SELECT without ORDER BY may return the rows.
RowOrders(rows) ==
    {o \in [1..Cardinality(rows) -> rows] :
        \A i, j \in 1..Cardinality(rows) : o[i] = o[j] => i = j}

\* for row in rows: agg = add(pub, agg, int(row["ciphertext"]))
RECURSIVE FoldRows(_, _, _, _)
FoldRows(key, agg, rows, i) ==
    IF i > Len(rows) THEN agg
    ELSE FoldRows(key, add(key, agg, ParseInt(rows[i].ciphertext)), rows, i + 1)

\* (mutant) every row's ciphertext is decrypted on its way into the fold.
RECURSIVE FoldCalls_each(_, _, _, _)
FoldCalls_each(key, agg, rows, i) ==
    IF i > Len(rows) THEN <<decrypt_call(key, agg)>>
    ELSE IF ~ParsesAsInt(rows[i].ciphertext) THEN <<>>
    ELSE LET c_int == ParseInt(rows[i].ciphertext)
         IN  <<decrypt_call(key, c_int),
               LibCall("add", <<agg, c_int>>, <<add(key, agg, c_int)>>)>>
                \o FoldCalls_each(key, add(key, agg, c_int), rows, i + 1)

\* The calls the loop and the final decrypt make, from row i on; the loop is
\* left by ValueError at the first ciphertext int() rejects.
RECURSIVE FoldCalls(_, _, _, _)
FoldCalls(key, agg, rows, i) ==
    IF i > Len(rows) THEN <<decrypt_call(key, agg)>>
    ELSE IF ~ParsesAsInt(rows[i].ciphertext) THEN <<>>
    ELSE LET c_int == ParseInt(rows[i].ciphertext)
         IN  <<LibCall("add", <<agg, c_int>>, <<add(key, agg, c_int)>>)>>
                \o FoldCalls(key, add(key, agg, c_int), rows, i + 1)

\* (mutant) the accumulator is seeded before the rows are looked at.
AggregateResponse_seeded(key, rows, r) ==
    LET seed == encrypt_call(key, 0, r)
    IN  IF Len(rows) = 0
        THEN [status |-> 200,
              body |-> [count |-> 0, aggregate_ciphertext |-> None, total |-> 0],
              crypto |-> <<seed>>]
        ELSE IF \E i \in 1..Len(rows) : ~ParsesAsInt(rows[i].ciphertext)
        THEN [status |-> 500, body |-> <<>>,
              crypto |-> <<seed>> \o FoldCalls(key, encrypt(key, 0, r), rows, 1)]
        ELSE LET agg == FoldRows(key, encrypt(key, 0, r), rows, 1)
             IN  [status |-> 200,
                  body |-> [count |-> Len(rows),
                            aggregate_ciphertext |-> Str(agg),
                            total |-> decrypt(key, agg)],
                  crypto |-> <<seed>> \o FoldCalls(key, encrypt(key, 0, r), rows, 1)]

\* The response of aggregate_votes for the rows as retrieved and the
\* randomness r drawn by encrypt(pub, 0), with the calls made into the
\* cryptosystem.  int() of a stored ciphertext that is no integer raises
\* ValueError, which no handler catches (500).
AggregateResponse(key, rows, r) ==
    IF Len(rows) = 0
    THEN [status |-> 200,
          body |-> [count |-> 0, aggregate_ciphertext |-> None, total |-> 0],
          crypto |-> <<>>]
    ELSE LET seed == encrypt(key, 0, r)
             made == <<encrypt_call(key, 0, r)>> \o FoldCalls(key, seed, rows, 1)
         IN  IF \E i \in 1..Len(rows) : ~ParsesAsInt(rows[i].ciphertext)
             THEN [status |-> 500, body |-> <<>>, crypto |-> made]
             ELSE LET agg == FoldRows(key, seed, rows, 1)
                  IN  [status |-> 200,
                       body |-> [count |-> Len(rows),
                                 aggregate_ciphertext |-> Str(agg),
                                 total |-> decrypt(key, agg)],
                       crypto |-> made]

\* GET /votes/aggregate: always the demo keypair, whatever key_id names.
aggregate_votes(p, question_id, key_id, r, rows) ==
    /\ ~InProgress(p)
    /\ rows \in RowOrders(fetch_votes_by_question(question_id, key_id))
    /\ IsAdmissibleR(demo_key, r)
    /\ LET resp == AggregateResponse(demo_key, rows, r)
       IN  tx' = [tx EXCEPT ![p] =
                    [Fresh EXCEPT !.op = "aggregate_votes",
                                  !.req = [NoReq EXCEPT !.question_id = question_id,
                                                        !.key_id = key_id],
                                  !.status = resp.status,
                                  !.body = resp.body,
                                  !.crypto = resp.crypto]]
    /\ UNCHANGED <<iam, lib, demo_key, questions, participants, votes, logs, photos, bucket,
                   seq, calls, tamper>>

\* (mutant) the verification repairs what it finds: the entry whose link is
\* broken is dropped from the log.
audit_verify_repair(p) ==
    /\ ~InProgress(p)
    /\ tx' = [tx EXCEPT ![p] = [Fresh EXCEPT !.op = "audit_verify", !.status = 200,
                                             !.body = verify_hash_chain]]
    /\ logs' = {e \in logs : e.id \notin verify_hash_chain.broken_id}
    /\ UNCHANGED <<iam, lib, demo_key, questions, participants, votes, photos, bucket,
                   seq, calls, tamper>>

\* GET /audit/verify
audit_verify(p) ==
    /\ ~InProgress(p)
    /\ tx' = [tx EXCEPT ![p] = [Fresh EXCEPT !.op = "audit_verify", !.status = 200,
                                             !.body = verify_hash_chain]]
    /\ UNCHANGED <<iam, lib, demo_key, questions, participants, votes, logs, photos, bucket,
                   seq, calls, tamper>>

(***************************************************************************)
(* Out-of-band modifications of the database (an UPDATE or DELETE issued    *)
(* directly, as tests/test_audit_chain.py does), made once, on a quiescent  *)
(* database whose chain verifies.                                           *)
(***************************************************************************)
Bogus == <<"bogus">>

Quiescent == \A p \in Procs : ~InProgress(p)

\* UPDATE audit.logs SET prev_hash = h WHERE id = id
tamper_prev_hash(id, h) ==
    /\ tamper = None
    /\ Quiescent
    /\ verify_hash_chain.ok
    /\ \E e \in logs :
          /\ e.id = id
          /\ e.prev_hash # h
          /\ logs' = (logs \ {e}) \cup {[e EXCEPT !.prev_hash = h]}
    /\ tamper' = <<"prev_hash", id>>
    /\ UNCHANGED <<iam, lib, demo_key, questions, participants, votes, photos, bucket, seq,
                   tx, calls>>

\* UPDATE audit.logs SET payload_hash = h WHERE id = id  (the column is NOT NULL)
tamper_payload_hash(id, h) ==
    /\ tamper = None
    /\ Quiescent
    /\ verify_hash_chain.ok
    /\ h # None
    /\ \E e \in logs :
          /\ e.id = id
          /\ e.payload_hash # h
          /\ logs' = (logs \ {e}) \cup {[e EXCEPT !.payload_hash = h]}
    /\ tamper' = <<"payload_hash", id>>
    /\ UNCHANGED <<iam, lib, demo_key, questions, participants, votes, photos, bucket, seq,
                   tx, calls>>

\* UPDATE votes.votes SET question_id, ciphertext, key_id WHERE id = id
tamper_vote(id, q, ct, key) ==
    /\ tamper = None
    /\ Quiescent
    /\ verify_hash_chain.ok
    /\ \E v \in votes :
          /\ v.id = id
          /\ <<v.question_id, v.ciphertext, v.key_id>> # <<q, ct, key>>
          /\ votes' = (votes \ {v}) \cup
                         {[v EXCEPT !.question_id = q, !.ciphertext = ct,
                                    !.key_id = key]}
    /\ tamper' = <<"vote", id>>
    /\ UNCHANGED <<iam, lib, demo_key, questions, participants, logs, photos, bucket, seq,
                   tx, calls>>

\* DELETE FROM votes.votes WHERE id = id
tamper_delete_vote(id) ==
    /\ tamper = None
    /\ Quiescent
    /\ verify_hash_chain.ok
    /\ \E v \in votes : v.id = id /\ votes' = votes \ {v}
    /\ tamper' = <<"vote_deleted", id>>
    /\ UNCHANGED <<iam, lib, demo_key, questions, participants, logs, photos, bucket, seq,
                   tx, calls>>

(***************************************************************************)
(* Requests the clients send                                                *)
(***************************************************************************)
QuestionIds == {"Q1", "Q2"}

ParticipantIds == {"alice", "bob"}

AgentIds == {"agent-7"}

KeyIds == {DEMO_KEY_ID, "key-v2"}

\* A ciphertext field that is no number (the field is only checked for
\* min_length=1).
Garbage == <<"x">>

\* str(encrypt(pub, m)) as the clients compute it, for the plaintexts ms and
\* the randomness rs.
ClientCiphertexts(ms, rs) == {Str(encrypt(demo_key, m, r)) : m \in ms, r \in rs}

\* The keypairs the clients of a key_id encrypt under: the demo keypair for
\* DEMO_KEY_ID; for any other key_id a keypair of its own, generated by
\* generate_keypair at that epoch's size.
RotatedKeyBits == KeyBits + 2

RotatedKeypairs == generate_keypair(RotatedKeyBits)

ClientKeypairs(key_id) ==
    IF key_id = DEMO_KEY_ID THEN {demo_key} ELSE RotatedKeypairs

\* str(encrypt(pub, m)) under the keypairs of key_id.
KeyedCiphertexts(key_id, ms, rs) ==
    {Str(encrypt(key, m, r)) : key \in ClientKeypairs(key_id), m \in ms, r \in rs}

VoteRequests(qs, parts, cts, keys) ==
    {VoteReq(q, part, agent, ct, key) :
        q \in qs, part \in parts, agent \in AgentIds, ct \in cts, key \in keys}

PhotoRequests(objs, sizes) ==
    {PhotoReq(obj, size, DEMO_KEY_ID) : obj \in objs, size \in sizes}

\* The digests an audit row can carry.
Hashes == {e.payload_hash : e \in logs} \cup {Bogus}

(***************************************************************************)
(* The handlers a task runs, one statement at a time                        *)
(***************************************************************************)
WriteHandlers(p, vreqs, preqs) ==
    \/ \E req \in vreqs : send_vote(p, req)
    \/ vote_identity(p)
    \/ vote_insert(p)
    \/ vote_read_prev(p)
    \/ vote_audit(p)
    \/ vote_commit(p)
    \/ \E req \in preqs : upload_photo(p, req)
    \/ photo_insert(p)
    \/ photo_read_prev(p)
    \/ photo_audit(p)
    \/ photo_commit(p)
    \/ statement_fails(p)

Aggregate(p, qs, keys, seeds) ==
    \E q \in qs, k \in keys :
       \E r \in seeds, rows \in RowOrders(fetch_votes_by_question(q, k)) :
          aggregate_votes(p, q, k, r, rows)

Admin ==
    \/ \E q \in QuestionIds : create_question(q)
    \/ reset_db

(***************************************************************************)
(* Spec: the tasks of Procs write concurrently.                             *)
(***************************************************************************)
Next ==
    \/ \E p \in Procs :
          WriteHandlers(p,
                        VoteRequests(QuestionIds, ParticipantIds,
                                     ClientCiphertexts({1}, {2}), {DEMO_KEY_ID}),
                        PhotoRequests({"o1"}, {1}))
    \/ Admin

Spec == Init /\ [][Next]_vars

(***************************************************************************)
(* SeqSpec: calls that do not overlap (one task), with the audit check.     *)
(***************************************************************************)
NextSeq ==
    \/ WriteHandlers("w1",
                     VoteRequests(QuestionIds, ParticipantIds,
                                  ClientCiphertexts({0, 1}, {2}), {DEMO_KEY_ID}),
                     PhotoRequests({"o1", "o2"}, {1}))
    \/ audit_verify("w1")
    \/ Admin

SeqSpec == Init /\ [][NextSeq]_vars

(***************************************************************************)
(* AggSpec: votes cast one after the other and aggregated.                  *)
(***************************************************************************)
\* The randomness explored for a draw of encrypt: the admissible r up to
\* MaxSeed.
MaxSeed == 2

NextAgg ==
    \/ WriteHandlers("w1",
                     VoteRequests({"Q1"}, {"alice"},
                                  ClientCiphertexts({0, 1, demo_key.n - 1}, {2})
                                      \cup {Garbage},
                                  KeyIds),
                     {})
    \/ Aggregate("w1", {"Q1"}, KeyIds,
                 {r \in 1..MaxSeed : IsAdmissibleR(demo_key, r)})
    \/ create_question("Q1")

AggSpec == Init /\ [][NextAgg]_vars

(***************************************************************************)
(* KeySpec: votes cast under two key_ids, each encrypted under the keypair  *)
(* of its key_id, and aggregated per key_id.                                *)
(***************************************************************************)
NextKey ==
    \/ WriteHandlers("w1",
                     UNION {VoteRequests({"Q1"}, {"alice"},
                                         KeyedCiphertexts(k, {1}, {2}), {k}) :
                               k \in KeyIds},
                     {})
    \/ Aggregate("w1", {"Q1"}, KeyIds,
                 {r \in 1..MaxSeed : IsAdmissibleR(demo_key, r)})
    \/ create_question("Q1")

KeySpec == Init /\ [][NextKey]_vars

(***************************************************************************)
(* TamperSpec: non-overlapping calls, then one out-of-band modification,    *)
(* then the audit check.                                                    *)
(***************************************************************************)
NextTamper ==
    \/ /\ tamper = None
       /\ \/ WriteHandlers("w1",
                           VoteRequests({"Q1"}, {"alice"},
                                        ClientCiphertexts({0, 1}, {2}),
                                        {DEMO_KEY_ID}),
                           PhotoRequests({"o1"}, {1}))
          \/ create_question("Q1")
    \/ \E e \in logs : \E h \in Hashes \cup {None} : tamper_prev_hash(e.id, h)
    \/ \E e \in logs : \E h \in Hashes : tamper_payload_hash(e.id, h)
    \/ \E v \in votes : \E q \in QuestionIds, ct \in ClientCiphertexts({0, 1}, {2}),
                           key \in KeyIds : tamper_vote(v.id, q, ct, key)
    \/ \E v \in votes : tamper_delete_vote(v.id)
    \/ audit_verify("w1")

TamperSpec == Init /\ [][NextTamper]_vars

(***************************************************************************)
(* LibSpec: the cryptosystem called directly with the keypair, the way      *)
(* tests/test_paillier.py does: one or two encryptions, combined by add or  *)
(* add_plain, then decrypted; or decrypt on an arbitrary integer.           *)
(***************************************************************************)
\* How far outside [0, n) the plaintexts, and outside [0, n_sq) the integers
\* handed to decrypt, are taken.
MaxExcess == 2

Succeeded(call) == call.out # <<>>

\* c = encrypt(pub, m)
lib_encrypt(m, r) ==
    /\ Len(lib) <= 1
    /\ \A i \in 1..Len(lib) : lib[i].fn = "encrypt" /\ Succeeded(lib[i])
    /\ IsAdmissibleR(demo_key, r)
    /\ lib' = Append(lib, encrypt_call(demo_key, m, r))
    /\ UNCHANGED <<iam, demo_key, questions, participants, votes, logs, photos, bucket,
                   seq, tx, calls, tamper>>

\* agg = add(pub, c1, c2) on the two ciphertexts just made.
lib_add ==
    /\ Len(lib) = 2
    /\ \A i \in 1..2 : lib[i].fn = "encrypt" /\ Succeeded(lib[i])
    /\ lib' = Append(lib, LibCall("add", <<lib[1].out[1], lib[2].out[1]>>,
                                  <<add(demo_key, lib[1].out[1], lib[2].out[1])>>))
    /\ UNCHANGED <<iam, demo_key, questions, participants, votes, logs, photos, bucket,
                   seq, tx, calls, tamper>>

\* agg = add_plain(pub, base, m) on the ciphertext just made.
lib_add_plain(m) ==
    /\ Len(lib) = 1
    /\ lib[1].fn = "encrypt" /\ Succeeded(lib[1])
    /\ lib' = Append(lib, LibCall("add_plain", <<lib[1].out[1], m>>,
                                  <<add_plain(demo_key, lib[1].out[1], m)>>))
    /\ UNCHANGED <<iam, demo_key, questions, participants, votes, logs, photos, bucket,
                   seq, tx, calls, tamper>>

\* decrypt(priv, c) on the value the last call returned: a lone encryption,
\* or the result of add / add_plain.
lib_decrypt ==
    /\ \/ Len(lib) = 1 /\ lib[1].fn = "encrypt" /\ Succeeded(lib[1])
       \/ Len(lib) > 1 /\ lib[Len(lib)].fn \in {"add", "add_plain"}
    /\ lib' = Append(lib, decrypt_call(demo_key, lib[Len(lib)].out[1]))
    /\ UNCHANGED <<iam, demo_key, questions, participants, votes, logs, photos, bucket,
                   seq, tx, calls, tamper>>

\* decrypt(priv, c) on an integer that no call returned.
lib_decrypt_any(c) ==
    /\ lib = <<>>
    /\ lib' = <<decrypt_call(demo_key, c)>>
    /\ UNCHANGED <<iam, demo_key, questions, participants, votes, logs, photos, bucket,
                   seq, tx, calls, tamper>>

Plaintexts == (0 - MaxExcess)..(demo_key.n - 1 + MaxExcess)

NextLib ==
    \/ \E m \in Plaintexts : \E r \in 1..MaxSeed : lib_encrypt(m, r)
    \/ lib_add
    \/ \E m \in 0..(demo_key.n - 1) : lib_add_plain(m)
    \/ lib_decrypt
    \/ \E c \in (0 - MaxExcess)..(demo_key.n * demo_key.n + MaxExcess) :
          lib_decrypt_any(c)

\* The backend as after startup, with no question in the table.
InitLib == Init /\ questions = {}

LibSpec == InitLib /\ [][NextLib]_vars

(***************************************************************************)
(* VoteSpec: votes sent one after the other by two participants through two *)
(* agents.                                                                  *)
(***************************************************************************)
NextVote ==
    \/ WriteHandlers("w1",
                     {VoteReq("Q1", part, agent, ct, key) :
                         part \in ParticipantIds, agent \in {"agent-7", "agent-8"},
                         ct \in ClientCiphertexts({1}, {2}) \cup {Garbage},
                         key \in KeyIds},
                     {})
    \/ create_question("Q1")
    \/ reset_db

VoteSpec == Init /\ [][NextVote]_vars

(***************************************************************************)
(* ReadSpec: task w1 records votes, statement by statement, while task w2   *)
(* aggregates.                                                              *)
(***************************************************************************)
NextRead ==
    \/ WriteHandlers("w1",
                     VoteRequests({"Q1"}, {"alice"},
                                  ClientCiphertexts({0, 1}, {2}) \cup {Garbage},
                                  {DEMO_KEY_ID}),
                     {})
    \/ Aggregate("w2", {"Q1"}, {DEMO_KEY_ID},
                 {r \in 1..MaxSeed : IsAdmissibleR(demo_key, r)})
    \/ create_question("Q1")

ReadSpec == Init /\ [][NextRead]_vars

(***************************************************************************)
(* ChainSpec: the audit script and /audit/verify run against a database     *)
(* whose audit log was left by earlier runs and by writes made directly in  *)
(* the database: entries with any ids (identity values skipped by           *)
(* rollbacks), any payload_hash and any prev_hash.                          *)
(***************************************************************************)
MaxEntries == 3

\* audit/check_hash_chain.py check(): init_db creates what is missing and
\* changes no row; the result repeats verify_hash_chain's answer.
check(p) ==
    /\ ~InProgress(p)
    /\ LET result == verify_hash_chain
       IN  tx' = [tx EXCEPT ![p] =
                    [Fresh EXCEPT !.op = "check_hash_chain",
                                  !.body = [chain_length |-> result.length,
                                            violations |->
                                               IF ~result.ok THEN result.broken_id
                                               ELSE {},
                                            passed |-> result.ok]]]
    /\ UNCHANGED <<iam, lib, demo_key, questions, participants, votes, logs, photos, bucket,
                   seq, calls, tamper>>

FoundHashes ==
    {Bogus, hash_identifier(VotePayload("Q1", Str(1), DEMO_KEY_ID))}

FoundLogs ==
    UNION {[ids -> [event_type : {"vote_received"},
                    payload_hash : FoundHashes,
                    prev_hash : FoundHashes \cup {None}]] :
              ids \in {s \in SUBSET (1..(MaxEntries + 1)) : Cardinality(s) <= MaxEntries}}

InitChain ==
    /\ demo_key \in generate_keypair(KeyBits)
    /\ questions = {}
    /\ participants = {}
    /\ votes = {}
    /\ \E f \in FoundLogs :
          /\ logs = {[id |-> i,
                      event_type |-> f[i].event_type,
                      payload_hash |-> f[i].payload_hash,
                      prev_hash |-> f[i].prev_hash] : i \in DOMAIN f}
          /\ seq = [votes |-> 0, logs |-> MaxEntries + 1, photos |-> 0]
    /\ photos = {}
    /\ bucket = {}
    /\ tx = [p \in Procs |-> Fresh]
    /\ calls = 0
    /\ tamper = None
    /\ lib = <<>>
    /\ users = SeededUsers
    /\ tokens = {}
    /\ now = 0

NextChain ==
    \/ audit_verify("w1")
    \/ check("w2")

ChainSpec == InitChain /\ [][NextChain]_vars

(***************************************************************************)
(* SuppliedSpec: encrypt called with the randomness given by the caller,    *)
(* inside and outside [1, n), and the ciphertext decrypted.                 *)
(***************************************************************************)
\* encrypt(pub, m, r) with r given: the draw is skipped and r is used as it is.
lib_encrypt_with(m, r) ==
    /\ lib = <<>>
    /\ lib' = <<encrypt_call(demo_key, m, r)>>
    /\ UNCHANGED <<iam, demo_key, questions, participants, votes, logs, photos, bucket,
                   seq, tx, calls, tamper>>

NextSupplied ==
    \/ \E m \in Plaintexts :
          \E r \in (0 - MaxExcess)..(demo_key.n - 1 + MaxExcess) : lib_encrypt_with(m, r)
    \/ lib_decrypt

SuppliedSpec == InitLib /\ [][NextSupplied]_vars

(***************************************************************************)
(* PrimeSpec: _is_probable_prime called directly, as _generate_prime does,  *)
(* with the draws of secrets.randbelow recorded before the call's record.   *)
(***************************************************************************)
\* The integers tested: all up to MaxTested, and the least composite that no
\* prime of small_primes divides.
MaxTested == 43

LeastUnsieved == 31 * 31

TestedIntegers == (0 - 1)..MaxTested \cup {LeastUnsieved}

\* The sequences of bases the loop can draw in k rounds.
RECURSIVE DrawsMade(_, _)
DrawsMade(n, k) ==
    IF k = 0 THEN {<<>>}
    ELSE UNION {IF RoundPasses(n, a)
                THEN {<<a>> \o rest : rest \in DrawsMade(n, k - 1)}
                ELSE {<<a>>} : a \in 2..(n - 2)}

\* The loop is entered when n is neither below 2, nor in small_primes, nor a
\* multiple of one of them.
LoopEntered(n) == n >= 2 /\ \A p \in small_primes : n % p # 0

\* _is_probable_prime(n, rounds) drawing the bases given: every base is in
\* [2, n-2], the loop is left at the first base that proves n composite, and
\* runs for all the rounds otherwise.
lib_is_probable_prime(n, rounds, bases) ==
    /\ lib = <<>>
    /\ Len(bases) <= (IF LoopEntered(n) THEN rounds ELSE 0)
    /\ \A i \in 1..Len(bases) :
          /\ 2 <= bases[i] /\ bases[i] <= n - 2
          /\ i < Len(bases) => RoundPasses(n, bases[i])
    /\ (LoopEntered(n) /\ Len(bases) < rounds) =>
          (bases # <<>> /\ ~RoundPasses(n, bases[Len(bases)]))
    /\ lib' = [i \in 1..Len(bases) |-> LibCall("randbelow", <<n - 3>>, <<bases[i] - 2>>)]
                 \o <<LibCall("_is_probable_prime", <<n, rounds>>,
                              <<is_probable_prime(n, bases)>>)>>
    /\ UNCHANGED <<iam, demo_key, questions, participants, votes, logs, photos, bucket,
                   seq, tx, calls, tamper>>

NextPrime ==
    /\ lib = <<>>
    /\ \E n \in TestedIntegers : \E rounds \in 0..MRRounds :
          \E bases \in (IF LoopEntered(n) THEN DrawsMade(n, rounds) ELSE {<<>>}) :
             lib_is_probable_prime(n, rounds, bases)

PrimeSpec == InitLib /\ [][NextPrime]_vars

(***************************************************************************)
(* PhotoSpec: photos of two sizes uploaded one after the other under two    *)
(* object names.                                                            *)
(***************************************************************************)
NextPhoto ==
    \/ \E req \in PhotoRequests({"o1", "o2"}, {1, 2}) : upload_photo("w1", req)
    \/ photo_insert("w1")
    \/ photo_read_prev("w1")
    \/ photo_audit("w1")
    \/ photo_commit("w1")
    \/ statement_fails("w1")

PhotoSpec == Init /\ [][NextPhoto]_vars

(***************************************************************************)
(* app/main.py: authentication and the admin endpoints.  An Authorization   *)
(* header and an optional field are sets: {} when absent, {x} when x is     *)
(* given.                                                                   *)
(***************************************************************************)
TheOne(s) == CHOOSE x \in s : TRUE

\* get_current_user: the payload of the bearer token, or 401.
get_current_user(authorization) ==
    IF authorization = {} THEN [status |-> 401, user |-> {}]
    ELSE IF decode_token(TheOne(authorization)) = {} THEN [status |-> 401, user |-> {}]
    ELSE [status |-> 200, user |-> decode_token(TheOne(authorization))]

\* require_role(*roles): the role is the one in the token's payload.
require_role(roles, authorization) ==
    LET current == get_current_user(authorization)
    IN  IF current.status # 200 THEN current
        ELSE IF TheOne(current.user).role \notin roles THEN [status |-> 403, user |-> {}]
        ELSE current

\* The response of a call that is made in one step.
Respond(p, op, authorization, status, body) ==
    tx' = [tx EXCEPT ![p] =
             [Fresh EXCEPT !.op = op,
                           !.req = [NoReq EXCEPT !.authorization = authorization],
                           !.status = status,
                           !.body = body]]

\* The number of tokens issued is capped at MaxTokens.
MaxTokens == 2

\* POST /auth/login
login(p, username, password) ==
    /\ ~InProgress(p)
    /\ Cardinality(tokens) < MaxTokens
    /\ LET found == {u \in users : u.username = username}
       IN  IF \/ found = {}
              \/ ~verify_password(password, TheOne(found).password_hash,
                                  TheOne(found).password_salt)
           THEN Respond(p, "login", {}, 401, <<>>) /\ UNCHANGED tokens
           ELSE IF ~TheOne(found).is_active
           THEN Respond(p, "login", {}, 403, <<>>) /\ UNCHANGED tokens
           ELSE LET user == TheOne(found)
                    token == create_token(user.id, user.username, user.role)
                IN  /\ tokens' = tokens \cup {token}
                    /\ Respond(p, "login", {}, 200,
                               [access_token |-> token, role |-> user.role,
                                username |-> user.username])
    /\ UNCHANGED <<users, now, lib, demo_key, questions, participants, votes, logs,
                   photos, bucket, seq, calls, tamper>>

\* GET /auth/me
get_me(p, authorization) ==
    /\ ~InProgress(p)
    /\ LET current == get_current_user(authorization)
       IN  IF current.status # 200
           THEN Respond(p, "get_me", authorization, current.status, <<>>)
           ELSE Respond(p, "get_me", authorization, 200,
                        [user_id |-> TheOne(current.user).sub,
                         username |-> TheOne(current.user).username,
                         role |-> TheOne(current.user).role])
    /\ UNCHANGED <<iam, lib, demo_key, questions, participants, votes, logs, photos,
                   bucket, seq, calls, tamper>>

\* db.get_vote_stats
get_vote_stats ==
    [total_votes |-> Cardinality(votes),
     unique_questions |-> Cardinality({v.question_id : v \in votes}),
     unique_participants |-> Cardinality({v.participant_hash : v \in votes}),
     total_photos |-> Cardinality(photos),
     total_audit_entries |-> Cardinality(logs)]

\* GET /admin/stats (admin, auditor)
admin_stats(p, authorization) ==
    /\ ~InProgress(p)
    /\ LET admin == require_role({"admin", "auditor"}, authorization)
       IN  IF admin.status # 200
           THEN Respond(p, "admin_stats", authorization, admin.status, <<>>)
           ELSE Respond(p, "admin_stats", authorization, 200, get_vote_stats)
    /\ UNCHANGED <<iam, lib, demo_key, questions, participants, votes, logs, photos,
                   bucket, seq, calls, tamper>>

\* PUT /admin/users/{user_id} (admin) with the fields role and is_active;
\* db.update_user returns None when no row has the id.
admin_update_user(p, authorization, user_id, role, is_active) ==
    /\ ~InProgress(p)
    /\ LET admin == require_role({"admin"}, authorization)
           found == {u \in users : u.id = user_id}
       IN  IF admin.status # 200
           THEN /\ Respond(p, "admin_update_user", authorization, admin.status, <<>>)
                /\ UNCHANGED users
           ELSE IF role = {} /\ is_active = {}
           THEN /\ Respond(p, "admin_update_user", authorization, 400, <<>>)
                /\ UNCHANGED users
           ELSE IF found = {}
           THEN /\ Respond(p, "admin_update_user", authorization, 404, <<>>)
                /\ UNCHANGED users
           ELSE LET old == TheOne(found)
                    new == [old EXCEPT
                              !.role = IF role = {} THEN @ ELSE TheOne(role),
                              !.is_active = IF is_active = {} THEN @
                                            ELSE TheOne(is_active)]
                IN  /\ users' = (users \ {old}) \cup {new}
                    /\ Respond(p, "admin_update_user", authorization, 200,
                               [id |-> new.id, username |-> new.username,
                                role |-> new.role, is_active |-> new.is_active])
    /\ UNCHANGED <<tokens, now, lib, demo_key, questions, participants, votes, logs,
                   photos, bucket, seq, calls, tamper>>

\* DELETE /admin/users/{user_id} (admin): not the caller's own account.
admin_delete_user(p, authorization, user_id) ==
    /\ ~InProgress(p)
    /\ LET admin == require_role({"admin"}, authorization)
       IN  IF admin.status # 200
           THEN /\ Respond(p, "admin_delete_user", authorization, admin.status, <<>>)
                /\ UNCHANGED users
           ELSE IF Str(user_id) = TheOne(admin.user).sub
           THEN /\ Respond(p, "admin_delete_user", authorization, 400, <<>>)
                /\ UNCHANGED users
           ELSE IF \A u \in users : u.id # user_id
           THEN /\ Respond(p, "admin_delete_user", authorization, 404, <<>>)
                /\ UNCHANGED users
           ELSE /\ users' = {u \in users : u.id # user_id}
                /\ Respond(p, "admin_delete_user", authorization, 200, <<>>)
    /\ UNCHANGED <<tokens, now, lib, demo_key, questions, participants, votes, logs,
                   photos, bucket, seq, calls, tamper>>

\* Time passes, up to MaxNow.
MaxNow == 2

clock_advances ==
    /\ now < MaxNow
    /\ now' = now + 1
    /\ UNCHANGED <<users, tokens, lib, demo_key, questions, participants, votes, logs,
                   photos, bucket, seq, tx, calls, tamper>>

(***************************************************************************)
(* IamSpec: logins, role-gated requests and account changes by an admin,    *)
(* made one after the other with the tokens issued so far, with no token    *)
(* or with a token signed under another secret.                             *)
(***************************************************************************)
ForgedToken ==
    [sub |-> Str(1), username |-> "admin", role |-> "admin", iat |-> 0,
     exp |-> MaxNow + TokenLifetime + 1]

Presented == {{}} \cup {{t} : t \in tokens \cup {ForgedToken}}

Optional(s) == {{}} \cup {{x} : x \in s}

NextIam ==
    \/ \E username \in {"admin", "agent", "ghost"}, password \in {"admin", "agent"} :
          login("w1", username, password)
    \/ \E a \in Presented : get_me("w1", a)
    \/ \E a \in Presented : admin_stats("w1", a)
    \/ \E a \in Presented, user_id \in 2..3, role \in Optional({"auditor"}),
          is_active \in Optional({FALSE}) :
          admin_update_user("w1", a, user_id, role, is_active)
    \/ \E a \in Presented, user_id \in 1..2 : admin_delete_user("w1", a, user_id)
    \/ clock_advances

IamSpec == Init /\ [][NextIam]_vars

(***************************************************************************)
(* Properties                                                               *)
(***************************************************************************)
AuditRows == OrderById(logs)

\* The positions (after the first) whose prev_hash is not the payload_hash of
\* the row with the next-lower id.
BrokenLinks(rows) ==
    {i \in 2..Len(rows) : rows[i].prev_hash # rows[i - 1].payload_hash}

IsPrefix(s, t) == Len(s) <= Len(t) /\ \A i \in 1..Len(s) : s[i] = t[i]

EventCount(event_type) == Cardinality({e \in logs : e.event_type = event_type})

\* C1: after non-overlapping record_vote / record_photo_metadata calls on an
\* empty log, the first audit entry has no prev_hash and every other entry's
\* prev_hash is the payload_hash of the entry with the next-lower id.
C1_SequentialChainLinked ==
    /\ AuditRows # <<>> => AuditRows[1].prev_hash = None
    /\ BrokenLinks(AuditRows) = {}

\* Three entries, of both kinds, with distinct payloads.
C1_Witness ==
    /\ Len(AuditRows) = 3
    /\ EventCount("vote_received") >= 1
    /\ EventCount("photo_uploaded") >= 1
    /\ AuditRows[1].payload_hash # AuditRows[2].payload_hash

\* C2: whatever the interleaving of concurrent record_vote /
\* record_photo_metadata transactions, the committed log keeps the linkage
\* invariant and verify_hash_chain returns ok = true.
C2_ConcurrentChainLinked ==
    /\ BrokenLinks(AuditRows) = {}
    /\ verify_hash_chain.ok

\* C3: in every committed state the vote rows and the 'vote_received' entries
\* pair up (as many entries with a payload hash as votes with that digest),
\* the photo rows and the 'photo_uploaded' entries likewise, and nothing of a
\* call whose statement failed is stored.
VoteDigest(v) == hash_identifier(VotePayload(v.question_id, v.ciphertext, v.key_id))

PhotoDigest(ph) ==
    hash_identifier(PhotoPayload(ph.object_name, ph.size_bytes, ph.key_id))

C3_RowsPairedWithAuditEntries ==
    /\ \A e \in logs : e.event_type \in {"vote_received", "photo_uploaded"}
    /\ \A h \in {e.payload_hash : e \in logs} \cup {VoteDigest(v) : v \in votes}
                  \cup {PhotoDigest(ph) : ph \in photos} :
          /\ Cardinality({v \in votes : VoteDigest(v) = h})
                = Cardinality({e \in logs : e.event_type = "vote_received"
                                            /\ e.payload_hash = h})
          /\ Cardinality({ph \in photos : PhotoDigest(ph) = h})
                = Cardinality({e \in logs : e.event_type = "photo_uploaded"
                                            /\ e.payload_hash = h})

\* A vote and a photo are stored and a call was rolled back after its row had
\* been inserted (a vote id was drawn that no stored vote has).
C3_Witness ==
    /\ Quiescent
    /\ votes # {} /\ photos # {}
    /\ seq.votes > Cardinality(votes)
    /\ \E p \in Procs : tx[p].status = 500

C5_VoteTamperingDetected ==
    (tamper # None /\ tamper[1] \in {"vote", "vote_deleted"})
        => ~verify_hash_chain.ok

\* C6: a chain built by k sequential appends on an empty log verifies as
\* ok = true, broken_id absent, length = k (k = the rows stored since the
\* log was last empty).
C6_FreshChainVerifies ==
    /\ verify_hash_chain = [ok |-> TRUE,
                            length |-> Cardinality(votes) + Cardinality(photos),
                            broken_id |-> {}]
    /\ tx["w1"].op = "audit_verify" => tx["w1"].body.ok

\* /audit/verify answered for a chain of three appends.
C6_Witness ==
    /\ tx["w1"].op = "audit_verify"
    /\ tx["w1"].body.length = 3
    /\ Cardinality(logs) = 3

\* C7 (as stated): after the prev_hash or the payload_hash of any single
\* entry of a valid chain was changed, verify_hash_chain returns ok = false
\* with broken_id the first entry whose link no longer matches.
LogTampered == tamper # None /\ tamper[1] \in {"prev_hash", "payload_hash"}

FirstBrokenId(rows) ==
    {rows[i].id : i \in {j \in BrokenLinks(rows) :
                            \A k \in BrokenLinks(rows) : j <= k}}

AllVoteRequests ==
    VoteRequests(QuestionIds, ParticipantIds, ClientCiphertexts({0, 1}, {2}), KeyIds)

NoActiveQuestion(question_id) ==
    ~\E r \in questions : r.question_id = question_id /\ r.is_active

C9_VoteAcceptedWithoutQuestion ==
    [][\A req \in AllVoteRequests :
          (questions = {} /\ send_vote("w1", req)) => tx'["w1"].status # 400]_vars

\* C10: when every stored ciphertext of (question_id, key_id) encrypts some
\* m_i under the demo public key, aggregate_votes answers count = number of
\* rows, total = (sum of the m_i) mod n, and an aggregate_ciphertext that
\* decrypts to total.
Encryptions ==
    [key \in generate_keypair(KeyBits) \cup RotatedKeypairs |->
        [m \in 0..(key.n - 1) |-> {encrypt(key, m, r) : r \in AdmissibleR(key)}]]

IsEncryption(key, ct) ==
    ParsesAsInt(ct) /\ \E m \in 0..(key.n - 1) : ParseInt(ct) \in Encryptions[key][m]

PlaintextOf(key, ct) ==
    CHOOSE m \in 0..(key.n - 1) : ParseInt(ct) \in Encryptions[key][m]

RECURSIVE SumOfPlaintexts(_, _)
SumOfPlaintexts(key, rows) ==
    IF rows = {} THEN 0
    ELSE LET v == CHOOSE x \in rows : TRUE
         IN  PlaintextOf(key, v.ciphertext) + SumOfPlaintexts(key, rows \ {v})

C10_AggregateIsSumOfPlaintexts ==
    LET t == tx["w1"]
        rows == fetch_votes_by_question(t.req.question_id, t.req.key_id)
    IN  (/\ t.op = "aggregate_votes"
         /\ rows # {}
         /\ \A v \in rows : IsEncryption(demo_key, v.ciphertext))
        => /\ t.status = 200
           /\ t.body.count = Cardinality(rows)
           /\ t.body.total = SumOfPlaintexts(demo_key, rows) % demo_key.n
           /\ decrypt(demo_key, ParseInt(t.body.aggregate_ciphertext)) = t.body.total

\* C11: when no vote row exists for (question_id, key_id), aggregate_votes
\* answers count = 0, total = 0 and no aggregate_ciphertext, and has called
\* none of encrypt, add and decrypt.
C11_EmptyAggregateSkipsCrypto ==
    \A p \in Procs :
       (/\ tx[p].op = "aggregate_votes"
        /\ fetch_votes_by_question(tx[p].req.question_id, tx[p].req.key_id) = {})
          => /\ tx[p].status = 200
             /\ tx[p].body = [count |-> 0, aggregate_ciphertext |-> None, total |-> 0]
             /\ tx[p].crypto = <<>>

\* An aggregate over no row was answered while votes of the same question
\* are stored under the other key_id.
C11_Witness ==
    /\ tx["w1"].op = "aggregate_votes"
    /\ tx["w1"].body # <<>>
    /\ tx["w1"].body.count = 0
    /\ tx["w1"].req.key_id = "key-v2"
    /\ \E v \in votes : v.question_id = tx["w1"].req.question_id
                          /\ v.key_id = DEMO_KEY_ID

\* C12 (as stated): an aggregate_votes call over a non-empty row set calls decrypt
\* exactly once, as its last call into the cryptosystem, on the value the
\* last add returned; and no call of any operation passes a stored
\* ciphertext to decrypt.
StoredCiphertexts == {ParseInt(v.ciphertext) : v \in {x \in votes : ParsesAsInt(x.ciphertext)}}

DecryptCalls(made) == {i \in 1..Len(made) : made[i].fn = "decrypt"}

IsPrime(k) == k > 1 /\ \A d \in 2..(k - 1) : k % d # 0

\* n is the product of two distinct primes.
DistinctPrimeProduct(n) ==
    \E a \in 2..n : \E b \in (a + 1)..n : a * b = n /\ IsPrime(a) /\ IsPrime(b)

\* C13: aggregate_votes(question_id, key_id) folds exactly the rows whose
\* question_id and key_id both match, and when these rows encrypt plaintexts
\* m_i under the keypair of key_id, total is the sum of the m_i modulo that
\* keypair's n.  (Stated for keypairs built from two distinct primes, the
\* demo keypair included.)
AddedCiphertexts(made) == {made[i].args[2] : i \in {j \in 1..Len(made) : made[j].fn = "add"}}

C13_TotalUnderNamedKey ==
    LET t == tx["w1"]
        rows == fetch_votes_by_question(t.req.question_id, t.req.key_id)
    IN  \A key \in ClientKeypairs(t.req.key_id) :
           (/\ t.op = "aggregate_votes"
            /\ DistinctPrimeProduct(demo_key.n) /\ DistinctPrimeProduct(key.n)
            /\ rows # {}
            /\ \A v \in rows : IsEncryption(key, v.ciphertext))
           => /\ t.status = 200
              /\ t.body.count = Cardinality(rows)
              /\ AddedCiphertexts(t.crypto) = {ParseInt(v.ciphertext) : v \in rows}
              /\ t.body.total = SumOfPlaintexts(key, rows) % key.n

\* C14: for the keypair generate_keypair returned, every m in [0, n) and every
\* r encrypt draws, decrypt(priv, encrypt(pub, m)) = m.
C14_RoundTrip ==
    (/\ Len(lib) = 2
     /\ lib[1].fn = "encrypt"
     /\ lib[2].fn = "decrypt")
       => lib[2].out = <<lib[1].args[1]>>

\* C15: decrypt(priv, add(pub, encrypt(pub, m1), encrypt(pub, m2))) is
\* (m1 + m2) mod n: m1 + m2 when m1 + m2 < n, m1 + m2 - n otherwise.
C15_Homomorphism ==
    (/\ Len(lib) = 4
     /\ lib[3].fn = "add"
     /\ lib[4].fn = "decrypt")
       => LET m1 == lib[1].args[1]
              m2 == lib[2].args[1]
          IN  /\ lib[4].out = <<(m1 + m2) % demo_key.n>>
              /\ lib[4].out = <<IF m1 + m2 < demo_key.n THEN m1 + m2
                                ELSE m1 + m2 - demo_key.n>>

\* C16 (as stated): for all m1, m2 in [0, n),
\* decrypt(priv, add_plain(pub, encrypt(pub, m1), m2)) = m1 + m2.  (Stated
\* for a keypair of two distinct primes.)
C16_PlainAdditionExact ==
    (/\ DistinctPrimeProduct(demo_key.n)
     /\ Len(lib) = 3
     /\ lib[2].fn = "add_plain"
     /\ lib[3].fn = "decrypt")
       => lib[3].out = <<lib[1].args[1] + lib[2].args[2]>>

\* C16 (amended): for all m1, m2 in [0, n), add_plain(pub, encrypt(pub, m1), m2)
\* is the encryption of (m1 + m2) mod n under the randomness of the first
\* encryption, and decrypt returns for it what it returns for that
\* encryption: (m1 + m2) mod n when n is a product of two distinct primes.
C16_PlainAdditionModN ==
    (Len(lib) >= 2 /\ lib[2].fn = "add_plain")
       => LET m1 == lib[1].args[1]
              r == lib[1].args[2]
              m2 == lib[2].args[2]
              c == encrypt(demo_key, (m1 + m2) % demo_key.n, r)
          IN  /\ lib[2].out = <<c>>
              /\ Len(lib) = 3 =>
                    /\ lib[3].out = <<decrypt(demo_key, c)>>
                    /\ DistinctPrimeProduct(demo_key.n)
                          => lib[3].out = <<(m1 + m2) % demo_key.n>>

\* A sum that wraps around was decrypted, under a keypair of two distinct
\* primes and a randomness other than 1.
C16_Witness ==
    /\ Len(lib) = 3
    /\ lib[2].fn = "add_plain"
    /\ lib[1].args[1] + lib[2].args[2] > demo_key.n
    /\ lib[1].args[2] > 1
    /\ DistinctPrimeProduct(demo_key.n)

\* C17: encrypt raises for every m < 0 and every m >= n, having drawn no
\* randomness, and for every m in [0, n) it returns a value in [0, n_sq).
C17_EncryptRange ==
    \A i \in 1..Len(lib) :
       lib[i].fn = "encrypt" =>
          LET m == lib[i].args[1]
          IN  IF m < 0 \/ m >= demo_key.n
              THEN lib[i].out = <<>> /\ lib[i].args = <<m>>
              ELSE /\ Len(lib[i].out) = 1
                   /\ lib[i].out[1] \in 0..(demo_key.n * demo_key.n - 1)

\* encrypt returned for m = n - 1 and then raised for m = n.
C17_Witness ==
    /\ Len(lib) = 2
    /\ lib[1].fn = "encrypt" /\ lib[1].args[1] = demo_key.n - 1 /\ Succeeded(lib[1])
    /\ lib[2].fn = "encrypt" /\ lib[2].args[1] = demo_key.n /\ ~Succeeded(lib[2])

\* C18: decrypt raises for no keypair generate_keypair returned and no
\* integer c (0, a multiple of p or q, a value >= n_sq or below 0, a value
\* that is no encryption under the key): it returns an integer in [0, n).
AllCalls == {lib[i] : i \in 1..Len(lib)}
               \cup UNION {{tx[p].crypto[i] : i \in 1..Len(tx[p].crypto)} : p \in Procs}

C18_DecryptTotal ==
    \A call \in AllCalls :
       call.fn = "decrypt" =>
          /\ Len(call.out) = 1
          /\ call.out[1] \in 0..(demo_key.n - 1)

\* decrypt was handed n_sq, a multiple of p and q that is no ciphertext.
C18_Witness ==
    /\ Len(lib) = 1
    /\ lib[1].fn = "decrypt"
    /\ lib[1].args = <<demo_key.n * demo_key.n>>
    /\ Succeeded(lib[1])

\* C19: the keypair generate_keypair returned is not built from equal
\* primes: its n is a product of two distinct primes.
C19_KeypairOfDistinctPrimes == DistinctPrimeProduct(demo_key.n)

\* C20: every ciphertext stored in the votes table is the decimal string of
\* an integer in [0, n_sq), and no step changes the ciphertext of a stored
\* vote.
IsStoredForm(ct) ==
    /\ AllDigits(ct)
    /\ ct = Str(DigitsValue(ct))
    /\ DigitsValue(ct) < demo_key.n * demo_key.n

C20_StoredCiphertextsWellFormed ==
    [][/\ \A v \in votes' : IsStoredForm(v.ciphertext)
       /\ \A v \in votes : \A w \in votes' :
             w.id = v.id => w.ciphertext = v.ciphertext]_vars

\* C21: a successful send_vote stores a vote row with the ciphertext string
\* and the key_id as given and the SHA-256 digest of participant_id, and a
\* participants row (unless the participant has one) with the digests of
\* participant_id and agent_id; every identifier column of every stored row
\* holds a digest.
IsDigest(h) == Len(h) = 2 /\ h[1] = "sha256"

C21_StoredAsGivenIdentifiersHashed ==
    [][/\ \A v \in votes' : IsDigest(v.participant_hash)
       /\ \A r \in participants' :
             IsDigest(r.participant_hash) /\ IsDigest(r.agent_hash)
       /\ \A p \in Procs :
             (tx[p].pc = "commit" /\ tx[p].op = "send_vote" /\ vote_commit(p))
                => LET req == tx[p].req
                       h == hash_identifier(req.participant_id)
                   IN  /\ tx'[p].status = 201
                       /\ \E v \in votes' \ votes :
                             /\ v.question_id = req.question_id
                             /\ v.ciphertext = req.ciphertext
                             /\ v.key_id = req.key_id
                             /\ v.participant_hash = h
                       /\ \E r \in participants' : r.participant_hash = h
                       /\ (~\E r \in participants : r.participant_hash = h)
                             => [participant_hash |-> h,
                                 agent_hash |-> hash_identifier(req.agent_id)]
                                   \in participants'
                       /\ Cardinality(votes') = Cardinality(votes) + 1]_vars

\* A participant has voted twice, once with a ciphertext that is no number.
C21_Witness ==
    /\ tx["w1"].op = "send_vote" /\ tx["w1"].status = 201
    /\ Cardinality(votes) = 2
    /\ Cardinality(participants) = 1
    /\ \E v \in votes : v.ciphertext = Garbage

\* C22: an aggregate_votes call that runs while record_vote transactions are
\* in progress answers from the vote rows committed when its SELECT runs:
\* count is their number, the ciphertexts folded are theirs (each as often as
\* it is stored), the rows of transactions not yet committed or rolled back
\* are left out, and no committed vote ever disappears, so that every vote
\* committed before the call started is in.
AggregateAnswered(p) == tx'[p] # tx[p] /\ tx'[p].op = "aggregate_votes"

TimesFolded(made, c) ==
    Cardinality({i \in 1..Len(made) : made[i].fn = "add" /\ made[i].args[2] = c})

TimesStored(rows, c) ==
    Cardinality({v \in rows : ParsesAsInt(v.ciphertext) /\ ParseInt(v.ciphertext) = c})

C22_AggregateReadsCommittedSnapshot ==
    [][/\ votes \subseteq votes'
       /\ \A p \in Procs :
             AggregateAnswered(p) =>
                LET committed == {v \in votes :
                                     /\ v.question_id = tx'[p].req.question_id
                                     /\ v.key_id = tx'[p].req.key_id}
                    made == tx'[p].crypto
                IN  /\ votes' = votes
                    /\ tx'[p].status = 200 =>
                          /\ tx'[p].body.count = Cardinality(committed)
                          /\ \A c \in AddedCiphertexts(made) \cup StoredCiphertexts :
                                TimesFolded(made, c) = TimesStored(committed, c)
                    /\ tx'[p].status # 200 =>
                          \E v \in committed : ~ParsesAsInt(v.ciphertext)]_vars

\* The aggregate was answered from the one committed vote while another vote
\* was inserted and not yet committed, after a transaction was rolled back.
C22_Witness ==
    /\ tx["w2"].op = "aggregate_votes"
    /\ tx["w2"].status = 200
    /\ tx["w2"].body.count = 1
    /\ Cardinality(votes) = 1
    /\ tx["w1"].vote # {}
    /\ seq.votes = 3

\* C23: verify_hash_chain changes no stored state, and a call that follows
\* another with no write to the audit log in between returns the same result.
\* (Here every handler that writes the log replaces the task's last answer,
\* and the one out-of-band write is made on a chain that verifies: an answer
\* given before that write has ok = true, so the answer at hand was given
\* after the last write when none was made yet or when it has ok = false.)
Tables == <<questions, participants, votes, logs, photos, bucket, seq>>

C23_VerifyReadOnlyAndRepeatable ==
    [][\A p \in Procs :
          /\ (tx'[p] # tx[p] /\ tx'[p].op = "audit_verify") => UNCHANGED Tables
          /\ (/\ tx[p].op = "audit_verify"
              /\ tx'[p].op = "audit_verify"
              /\ tamper = None \/ ~tx[p].body.ok) => tx'[p] = tx[p]]_vars

\* /audit/verify has answered ok = false for a log of three entries whose
\* middle link was broken.
C23_Witness ==
    /\ tx["w1"].op = "audit_verify"
    /\ ~tx["w1"].body.ok
    /\ tx["w1"].body.length = 3
    /\ tamper # None
    /\ tamper[1] = "prev_hash"
    /\ Cardinality(logs) = 3

\* C24: for the vote rows stored for (question_id, key_id), the total (and the
\* aggregate ciphertext) aggregate_votes returns is the one it would return
\* for every other order in which the SELECT could have handed the rows to
\* the fold, under the randomness its encrypt(pub, 0) drew; under a key of two
\* distinct primes the total is the same under every other randomness too.
SeedDrawn(made) == made[1].args[2]

C24_FoldOrderIndependent ==
    [][\A p \in Procs :
          (AggregateAnswered(p) /\ tx'[p].status = 200 /\ tx'[p].body.count > 0) =>
             LET stored == {v \in votes : /\ v.question_id = tx'[p].req.question_id
                                          /\ v.key_id = tx'[p].req.key_id}
                 r == SeedDrawn(tx'[p].crypto)
             IN  \A o \in RowOrders(stored) :
                    /\ AggregateResponse(demo_key, o, r).body = tx'[p].body
                    /\ DistinctPrimeProduct(demo_key.n) =>
                          \A s \in 1..(demo_key.n - 1) :
                             IsAdmissibleR(demo_key, s) =>
                                AggregateResponse(demo_key, o, s).body.total
                                   = tx'[p].body.total]_vars

\* An aggregate was answered from three stored votes, an encryption of 1 among
\* encryptions of 0, which the SELECT may return in six orders.
C24_Witness ==
    /\ tx["w2"].op = "aggregate_votes"
    /\ tx["w2"].status = 200
    /\ tx["w2"].body.count = 3
    /\ tx["w2"].body.total = 1
    /\ Cardinality(votes) = 3
    /\ Cardinality({v.ciphertext : v \in votes}) = 2

\* C25: for every audit log, verify_hash_chain returns ok = false exactly when
\* some entry after the first (in id order) has a prev_hash that is not the
\* payload_hash of the entry just before it; broken_id is then the lowest id
\* of such an entry (none when ok); length is the number of entries in both
\* outcomes; and the answer is the same whatever the first entry's prev_hash
\* is.  The audit script reports the same outcome.
WithFirstPrevHash(rows, h) ==
    [i \in 1..Len(rows) |-> IF i = 1 THEN [rows[i] EXCEPT !.prev_hash = h] ELSE rows[i]]

C25_VerifyHashChainContract ==
    /\ tx["w1"].op = "audit_verify" =>
          LET result == tx["w1"].body
          IN  /\ result.ok = (BrokenLinks(AuditRows) = {})
              /\ result.broken_id = FirstBrokenId(AuditRows)
              /\ result.length = Cardinality(logs)
              /\ \A h \in FoundHashes \cup {None} :
                    VerifyWalk(WithFirstPrevHash(AuditRows, h), 1, None) = result
    /\ tx["w2"].op = "check_hash_chain" =>
          /\ tx["w2"].body.passed = (BrokenLinks(AuditRows) = {})
          /\ tx["w2"].body.violations = FirstBrokenId(AuditRows)
          /\ tx["w2"].body.chain_length = Cardinality(logs)

\* /audit/verify has answered for a log of three entries with two broken
\* links and a first entry whose prev_hash is set.
C25_Witness ==
    /\ tx["w1"].op = "audit_verify"
    /\ tx["w2"].op = "check_hash_chain"
    /\ Len(AuditRows) = 3
    /\ BrokenLinks(AuditRows) = {2, 3}
    /\ AuditRows[1].prev_hash # None
    /\ AuditRows[2].id = 3
    /\ tx["w1"].body.broken_id = {3}

\* C26: _is_probable_prime returns true for every prime n, whatever bases in
\* [2, n-2] are drawn and for every number of rounds >= 0; it returns false,
\* drawing nothing, for every n < 2 and every composite that a prime <= 29
\* divides; and a base that proves n composite is the last one drawn, the
\* call returning false on it, so that true is returned only when every round
\* was inconclusive.
PrimeCall == lib[Len(lib)]

BasesDrawn == [i \in 1..(Len(lib) - 1) |-> lib[i].out[1] + 2]

\* a is a Miller-Rabin witness of n: a^d is not 1 and no a^(d * 2^j), j < s,
\* is n - 1, for n - 1 = d * 2^s with d odd.
ProvesComposite(n, a) ==
    LET d == OddPart(n - 1)
        s == TwoExponent(n - 1)
    IN  /\ ModExp(a, d, n) # 1
        /\ \A j \in 0..(s - 1) : ModExp(a, d * Pow2(j), n) # n - 1

C26_PrimesNeverRejected ==
    (lib # <<>> /\ PrimeCall.fn = "_is_probable_prime") =>
        LET n == PrimeCall.args[1]
            rounds == PrimeCall.args[2]
            result == PrimeCall.out[1]
            drawn == BasesDrawn
        IN  /\ IsPrime(n) => result = TRUE
            /\ n < 2 => (result = FALSE /\ drawn = <<>>)
            /\ (n >= 2 /\ \E p \in small_primes : p # n /\ n % p = 0)
                  => (result = FALSE /\ drawn = <<>>)
            /\ Len(drawn) <= rounds
            /\ \A i \in 1..Len(drawn) :
                  /\ 2 <= drawn[i] /\ drawn[i] <= n - 2
                  /\ ProvesComposite(n, drawn[i]) => (result = FALSE /\ i = Len(drawn))
            /\ result = TRUE =>
                  \/ n \in small_primes
                  \/ Len(drawn) = rounds /\ \A i \in 1..rounds : ~ProvesComposite(n, drawn[i])

\* A prime above 29 was tested in two rounds, the first with a base whose
\* d-th power is n - 1, and accepted.
C26_Witness ==
    /\ lib # <<>>
    /\ PrimeCall.fn = "_is_probable_prime"
    /\ IsPrime(PrimeCall.args[1])
    /\ PrimeCall.args[1] > 29
    /\ PrimeCall.out = <<TRUE>>
    /\ Len(lib) = 3
    /\ ModExp(BasesDrawn[1], OddPart(PrimeCall.args[1] - 1), PrimeCall.args[1])
          = PrimeCall.args[1] - 1

\* C27 (as stated): after successful send_vote calls each participant
\* fingerprint has at most one vote row per question, and the count an
\* aggregate returns for a question is at most the number of participants
\* who voted on it.
C27_OneVotePerParticipant ==
    /\ \A v1, v2 \in votes :
          (/\ v1.participant_hash = v2.participant_hash
           /\ v1.question_id = v2.question_id) => v1 = v2
    /\ \A p \in Procs :
          (tx[p].op = "aggregate_votes" /\ tx[p].status = 200) =>
             tx[p].body.count
                <= Cardinality({v.participant_hash :
                                  v \in {x \in votes :
                                            x.question_id = tx[p].req.question_id}})

\* C28 (as stated): after any upload_photo calls, failed ones included, every
\* photos row describes the object stored under its object_name (the object's
\* length is the row's size_bytes), and an object is in storage only if a
\* photos row and its 'photo_uploaded' audit entry exist.
C28_PhotosDescribeStoredObjects ==
    Quiescent =>
        /\ \A r \in photos :
              \E o \in bucket : o.object_name = r.object_name /\ o.length = r.size_bytes
        /\ \A o \in bucket :
              \E r \in photos :
                 /\ r.object_name = o.object_name
                 /\ \E en \in logs :
                       /\ en.event_type = "photo_uploaded"
                       /\ en.payload_hash = PhotoDigest(r)

\* C29 (as stated): a request passes get_current_user or require_role only
\* with a token whose user is, at the time of the request, still in the users
\* table, active and of the role the token was issued for: after an admin
\* deactivated or deleted the user or changed the role, the tokens issued
\* before are rejected (401 or 403).
Gated == {"get_me", "admin_stats", "admin_update_user", "admin_delete_user"}

C29_StaleTokensRejected ==
    [][\A p \in Procs :
          (/\ tx'[p] # tx[p]
           /\ tx'[p].op \in Gated
           /\ tx'[p].status \notin {401, 403}) =>
              \E u \in users :
                 /\ Str(u.id) = TheOne(tx'[p].req.authorization).sub
                 /\ u.is_active
                 /\ u.role = TheOne(tx'[p].req.authorization).role]_vars

\* C30 (as stated): encrypt with r supplied returns a ciphertext only for an
\* admissible r (1 <= r < n, gcd(r, n) = 1), and every ciphertext it returns
\* decrypts back to m.
C30_SuppliedRandomnessAdmissible ==
    (lib # <<>> /\ lib[1].fn = "encrypt" /\ Succeeded(lib[1])) =>
        /\ IsAdmissibleR(demo_key, lib[1].args[2])
        /\ (Len(lib) = 2 /\ lib[2].fn = "decrypt") => lib[2].out = <<lib[1].args[1]>>

====
